---- MODULE Spec2Model ----
(***************************************************************************)
(* The incremental batch grammar parser of src/token2json/token2json.py:   *)
(* TorchGrammar (the static grammar) and TorchGrammarBatchParser (one      *)
(* pushdown automaton per batch row, with a cache of the legal next        *)
(* tokens).  Arrays keep the code's 0-based indices; a production (a       *)
(* Python list of tokens) is a 1-based sequence, so tokens[idx] of the     *)
(* code is tokens[idx + 1] here.                                           *)
(***************************************************************************)
EXTENDS Integers, Sequences, FiniteSets, TLC

VARIABLES
    g,           \* the TorchGrammar: raw_rules, symbol_to_index, index_to_symbol
    bs,          \* batch_size
    stack,       \* stack[i][d] = <<object index, token pointer, repeat count>>
    ptr,         \* ptr[i]: depth pointer of row i
    seqs,        \* seqs[i][pos]: accepted token ids
    lens,        \* lens[i]: number of recorded ids
    next_cache,  \* next_cache[i][n]: cached legal next ids
    next_lens,   \* next_lens[i]: number of cached ids
    op,          \* the public method called last ("init" after construction)
    args,        \* its argument
    ret,         \* its return value
    err,         \* the exception it raised, "none" if it returned
    hist,        \* hist[i]: ids for which fast_is_valid returned True since set_batch
    visited,     \* visited[i]: stack configurations row i was in since set_batch
    caller       \* the caller: the inputs it draws and the calls it still makes

vars == <<g, bs, stack, ptr, seqs, lens, next_cache, next_lens,
          op, args, ret, err, hist, visited, caller>>

-----------------------------------------------------------------------------
(* Tunable limits of the parser.                                           *)
max_d == 16
max_l == 128
max_n == 32

(* The default fill_value of next_token_mask, float("-inf"), as a number   *)
(* below every score.                                                      *)
fill_value == -1000000

-----------------------------------------------------------------------------
(* Results of an evaluation that may raise.                                *)
Ok(v) == [err |-> "none", val |-> v]
Raise(e) == [err |-> e, val |-> <<>>]

(* Tokens by runtime type: int, tuple, str (object name), dict             *)
(* {sub_object_name: repetition bound or predicate}.                       *)
Lit(n) == [k |-> "int", v |-> n]
Tup(s) == [k |-> "tuple", v |-> s]
Ref(name) == [k |-> "str", v |-> name]
Rep(sub, raw) == [k |-> "dict", v |-> [sub |-> sub, raw |-> raw]]

(* A raw repetition bound: the integer m, or the callable lambda x: x >= m *)
Bound(m) == [callable |-> FALSE, m |-> m]
Lambda(m) == [callable |-> TRUE, m |-> m]

-----------------------------------------------------------------------------
(* TorchGrammar                                                            *)
TorchGrammar == [raw_rules |-> <<>>, symbol_to_index |-> <<>>, index_to_symbol |-> <<>>]

add_object(G, name, tokens) ==
    LET idx == Cardinality(DOMAIN G.symbol_to_index)
        fresh == name \notin DOMAIN G.symbol_to_index
    IN [raw_rules |-> (name :> tokens) @@ G.raw_rules,
        symbol_to_index |-> IF fresh THEN (name :> idx) @@ G.symbol_to_index
                            ELSE G.symbol_to_index,
        index_to_symbol |-> IF fresh THEN (idx :> name) @@ G.index_to_symbol
                            ELSE G.index_to_symbol]

(* list(range(lo, hi)): the range without its upper end.                   *)
RangeList_exclusive(lo, hi) == [j \in 1..(hi - lo) |-> lo + j - 1]

(* list(range(lo, hi + 1))                                                 *)
RangeList(lo, hi) == [j \in 1..(hi - lo + 1) |-> lo + j - 1]

expand_literal(tok) ==
    IF tok.k = "int" THEN Ok(<<tok.v>>)
    ELSE IF tok.k = "tuple"
         THEN IF Len(tok.v) = 2 THEN Ok(RangeList(tok.v[1], tok.v[2])) ELSE Ok(tok.v)
    ELSE Raise("ValueError")

(* wrap_pred with a strict comparison: one more instance than the bound.   *)
wrap_pred_strict(raw, cnt) == cnt > raw.m

(* wrap_pred(raw)(cnt)                                                     *)
wrap_pred(raw, cnt) ==
    IF raw.callable THEN cnt >= raw.m   \* the callable itself, lambda x: x >= m
    ELSE cnt >= raw.m                    \* lambda cnt, m=raw: cnt >= m

(* self.g.raw_rules[name]                                                  *)
raw_rules(name) ==
    IF name \in DOMAIN g.raw_rules THEN Ok(g.raw_rules[name]) ELSE Raise("KeyError")

(* self.g.raw_rules[name][0]                                               *)
first_token(name) ==
    LET r == raw_rules(name)
    IN IF r.err # "none" THEN r
       ELSE IF Len(r.val) = 0 THEN Raise("IndexError")
       ELSE Ok(r.val[1])

(* self.g.raw_rules[self.g.index_to_symbol[o_idx]]                         *)
rules_of_index(o_idx) ==
    IF o_idx \in DOMAIN g.index_to_symbol THEN raw_rules(g.index_to_symbol[o_idx])
    ELSE Raise("KeyError")

(* self.g.raw_rules[self.g.index_to_symbol[o_idx]][o_ptr]                  *)
token_at(o_idx, o_ptr) ==
    LET r == rules_of_index(o_idx)
    IN IF r.err # "none" THEN r
       ELSE IF o_ptr >= Len(r.val) \/ o_ptr < -Len(r.val) THEN Raise("IndexError")
       ELSE IF o_ptr >= 0 THEN Ok(r.val[o_ptr + 1])
       ELSE Ok(r.val[Len(r.val) + o_ptr + 1])

(* first_literals giving no ids for a name that was never registered.      *)
first_literals_or_nothing(name) ==
    LET f == first_token(name)
    IN IF name \notin DOMAIN g.raw_rules THEN Ok(<<>>)
       ELSE IF f.err # "none" THEN f ELSE expand_literal(f.val)

(* expand_literal(raw_rules[name][0])                                      *)
first_literals(name) ==
    LET f == first_token(name)
    IN IF f.err # "none" THEN f ELSE expand_literal(f.val)

InSeq(x, s) == \E n \in 1..Len(s) : s[n] = x

-----------------------------------------------------------------------------
(* TorchGrammarBatchParser.  S is the parser object: its tensors and the   *)
(* exception raised so far in the running call.                            *)
Rows == 0..(bs - 1)

Parser == [bs |-> bs, stack |-> stack, ptr |-> ptr, seqs |-> seqs, lens |-> lens,
           next_cache |-> next_cache, next_lens |-> next_lens, err |-> "none"]

(* range(self.bs)                                                          *)
RowsOf(S) == 0..(S.bs - 1)

Fail(S, e) == [S EXCEPT !.err = e]

(* top_frame reading the root frame instead of the frame at the depth      *)
(* pointer.                                                                *)
top_frame_root(S, i) == S.stack[i][0]

(* self.stack[i, self.ptr[i] - 1].tolist()                                 *)
top_frame(S, i) == S.stack[i][S.ptr[i] - 1]

(* _compute_valid taking the exit path of a group only once its predicate *)
(* holds.                                                                  *)
_compute_valid_exit_when_done(tok, rep_cnt, tokens, idx) ==
    IF tok.k = "dict" THEN
        LET exit == IF idx + 1 < Len(tokens) /\ wrap_pred(tok.v.raw, rep_cnt)
                    THEN LET nxt == tokens[idx + 2]
                             nxt_lit == IF nxt.k # "str" THEN Ok(nxt) ELSE first_token(nxt.v)
                         IN IF nxt_lit.err # "none" THEN nxt_lit
                            ELSE expand_literal(nxt_lit.val)
                    ELSE Ok(<<>>)
            again == IF ~wrap_pred(tok.v.raw, rep_cnt) THEN first_literals(tok.v.sub)
                     ELSE Ok(<<>>)
        IN IF exit.err # "none" THEN exit
           ELSE IF again.err # "none" THEN again
           ELSE Ok(exit.val \o again.val)
    ELSE IF tok.k = "str" THEN first_literals(tok.v)
    ELSE expand_literal(tok)

_compute_valid(tok, rep_cnt, tokens, idx) ==
    IF tok.k = "dict" THEN
        LET exit == IF idx + 1 < Len(tokens)
                    THEN LET nxt == tokens[idx + 2]
                             nxt_lit == IF nxt.k # "str" THEN Ok(nxt) ELSE first_token(nxt.v)
                         IN IF nxt_lit.err # "none" THEN nxt_lit
                            ELSE expand_literal(nxt_lit.val)
                    ELSE Ok(<<>>)
            again == IF ~wrap_pred(tok.v.raw, rep_cnt) THEN first_literals(tok.v.sub)
                     ELSE Ok(<<>>)
        IN IF exit.err # "none" THEN exit
           ELSE IF again.err # "none" THEN again
           ELSE Ok(exit.val \o again.val)
    ELSE IF tok.k = "str" THEN first_literals(tok.v)
    ELSE expand_literal(tok)

(* advance_parent resetting the count and leaving the pointer.             *)
advance_parent_same(S, i, o_ptr) ==
    [S EXCEPT !.stack[i][S.ptr[i] - 1] = <<@[1], o_ptr, 0>>]

(* advance_parent moving the pointer and keeping the repeat count.         *)
advance_parent_keep_count(S, i, o_ptr) ==
    [S EXCEPT !.stack[i][S.ptr[i] - 1] = <<@[1], o_ptr + 1, @[3]>>]

(* Lines 278-279: advance the frame below the popped one.                  *)
advance_parent(S, i, o_ptr) ==
    [S EXCEPT !.stack[i][S.ptr[i] - 1] = <<@[1], o_ptr + 1, 0>>]

(* _pop_and_advance without lines 272-275: the parent always advances.     *)
_pop_and_advance_always(S, i) ==
    LET S1 == [S EXCEPT !.ptr[i] = @ - 1]
    IN IF S1.ptr[i] = 0 THEN S1
       ELSE LET fr == top_frame(S1, i)
                token == token_at(fr[1], fr[2])
            IN IF token.err # "none" THEN Fail(S1, token.err)
               ELSE advance_parent(S1, i, fr[2])

_pop_and_advance(S, i) ==
    LET S1 == [S EXCEPT !.ptr[i] = @ - 1]
    IN IF S1.ptr[i] = 0 THEN S1
       ELSE LET fr == top_frame(S1, i)
                token == token_at(fr[1], fr[2])
            IN IF token.err # "none" THEN Fail(S1, token.err)
               ELSE IF token.val.k = "dict" /\ ~wrap_pred(token.val.v.raw, fr[3]) THEN S1
               ELSE advance_parent(S1, i, fr[2])

(* store_cache keeping the first max_n legal ids when there are more.      *)
store_cache_truncated(S, i, valid) ==
    LET k == IF Len(valid) > max_n THEN max_n ELSE Len(valid)
    IN [S EXCEPT !.next_cache[i] = [n \in 0..(max_n - 1) |->
                                       IF n < k THEN valid[n + 1] ELSE @[n]],
                 !.next_lens[i] = k]

(* Lines 300-302: write the legal ids into the cache row.                  *)
store_cache(S, i, valid) ==
    LET k == Len(valid)
    IN IF k > max_n THEN Fail(S, "RuntimeError")
       ELSE [S EXCEPT !.next_cache[i] = [n \in 0..(max_n - 1) |->
                                          IF n < k THEN valid[n + 1] ELSE @[n]],
                      !.next_lens[i] = k]

(* Line 306: no valid literal at this depth.                               *)
drop_frame(S, i) == [S EXCEPT !.ptr[i] = @ - 1]

(* The body of the loop of _refresh_next run once: after a pop or a drop   *)
(* the frame below is not consulted.                                       *)
refresh_row_once(S, i) ==
    IF S.err # "none" \/ S.ptr[i] <= 0 THEN S
    ELSE LET fr == top_frame(S, i)
             tokens == rules_of_index(fr[1])
         IN IF tokens.err # "none" THEN Fail(S, tokens.err)
            ELSE IF fr[2] >= Len(tokens.val) THEN _pop_and_advance(S, i)
            ELSE LET valid == _compute_valid(tokens.val[fr[2] + 1], fr[3], tokens.val, fr[2])
                 IN IF valid.err # "none" THEN Fail(S, valid.err)
                    ELSE IF Len(valid.val) > 0 THEN store_cache(S, i, valid.val)
                    ELSE drop_frame(S, i)

(* The while loop of _refresh_next for row i.                              *)
RECURSIVE refresh_row(_, _)
refresh_row(S, i) ==
    IF S.err # "none" \/ S.ptr[i] <= 0 THEN S
    ELSE LET fr == top_frame(S, i)
             tokens == rules_of_index(fr[1])
         IN IF tokens.err # "none" THEN Fail(S, tokens.err)
            ELSE IF fr[2] >= Len(tokens.val) THEN refresh_row(_pop_and_advance(S, i), i)
            ELSE LET valid == _compute_valid(tokens.val[fr[2] + 1], fr[3], tokens.val, fr[2])
                 IN IF valid.err # "none" THEN Fail(S, valid.err)
                    ELSE IF Len(valid.val) > 0 THEN store_cache(S, i, valid.val)
                    ELSE refresh_row(drop_frame(S, i), i)

(* _refresh_next without line 284.                                        *)
zero_next_lens_skip(S) == S

(* Line 284: self.next_lens.zero_()                                        *)
zero_next_lens(S) == [S EXCEPT !.next_lens = [i \in RowsOf(S) |-> 0]]

RECURSIVE refresh_rows(_, _)
refresh_rows(S, i) ==
    IF i >= S.bs \/ S.err # "none" THEN S
    ELSE refresh_rows(refresh_row(S, i), i + 1)

_refresh_next(S) == refresh_rows(zero_next_lens(S), 0)

(* set_batch pushing the root frame with pointer 1, as the repeat path     *)
(* does for a sub-object.                                                  *)
set_root_ptr1(S, i, name) ==
    IF name \notin DOMAIN g.symbol_to_index THEN Fail(S, "KeyError")
    ELSE IF i >= S.bs THEN Fail(S, "IndexError")
    ELSE [S EXCEPT !.stack[i][0] = <<g.symbol_to_index[name], 1, 0>>, !.ptr[i] = 1]

(* Lines 137-139 of set_batch, for one (i, name).                          *)
set_root(S, i, name) ==
    IF name \notin DOMAIN g.symbol_to_index THEN Fail(S, "KeyError")
    ELSE IF i >= S.bs THEN Fail(S, "IndexError")
    ELSE [S EXCEPT !.stack[i][0] = <<g.symbol_to_index[name], 0, 0>>, !.ptr[i] = 1]

RECURSIVE set_roots(_, _, _)
set_roots(S, root_objects, i) ==
    IF i >= Len(root_objects) \/ S.err # "none" THEN S
    ELSE set_roots(set_root(S, i, root_objects[i + 1]), root_objects, i + 1)

set_batch(S, root_objects) ==
    LET S1 == set_roots(S, root_objects, 0)
    IN IF S1.err # "none" THEN S1 ELSE _refresh_next(S1)

(* is_cached without the comparison with tok.                              *)
is_cached_any(S, i, tok) == S.next_lens[i] # 0

(* Line 158: n_cached and (self.next_cache[i, :n_cached] == tok).any()     *)
is_cached(S, i, tok) ==
    S.next_lens[i] # 0 /\ \E n \in 0..(S.next_lens[i] - 1) : S.next_cache[i][n] = tok

(* append_token writing to row 0 instead of row i.                         *)
append_token_row0(S, i, tok) ==
    LET pos == S.lens[i]
    IN IF pos < max_l THEN [S EXCEPT !.seqs[0][pos] = tok, !.lens[0] = @ + 1]
       ELSE S

(* Lines 162-165: append the token to the sequence.                        *)
append_token(S, i, tok) ==
    LET pos == S.lens[i]
    IN IF pos < max_l THEN [S EXCEPT !.seqs[i][pos] = tok, !.lens[i] = @ + 1]
       ELSE S

(* enter_repeat without line 246, the increment of the repeat counter.     *)
enter_repeat_no_count(S, i, sub) ==
    LET depth == S.ptr[i]
    IN IF sub \notin DOMAIN g.symbol_to_index THEN Fail(S, "KeyError")
       ELSE IF depth >= max_d THEN Fail(S, "IndexError")
       ELSE [S EXCEPT !.stack[i][depth] = <<g.symbol_to_index[sub], 1, 0>>,
                      !.ptr[i] = @ + 1]

(* enter_repeat pushing the sub-object with pointer 0, as push_object does *)
enter_repeat_ptr0(S, i, sub) ==
    LET depth == S.ptr[i]
    IN IF sub \notin DOMAIN g.symbol_to_index THEN Fail(S, "KeyError")
       ELSE IF depth >= max_d THEN Fail(S, "IndexError")
       ELSE [S EXCEPT !.stack[i][depth] = <<g.symbol_to_index[sub], 0, 0>>,
                      !.ptr[i] = @ + 1,
                      !.stack[i][depth - 1] = <<@[1], @[2], @[3] + 1>>]

(* enter_repeat setting the repeat counter to 1 instead of adding 1.       *)
enter_repeat_count_one(S, i, sub) ==
    LET depth == S.ptr[i]
    IN IF sub \notin DOMAIN g.symbol_to_index THEN Fail(S, "KeyError")
       ELSE IF depth >= max_d THEN Fail(S, "IndexError")
       ELSE [S EXCEPT !.stack[i][depth] = <<g.symbol_to_index[sub], 1, 0>>,
                      !.ptr[i] = @ + 1,
                      !.stack[i][depth - 1] = <<@[1], @[2], 1>>]

(* Lines 242-246: enter a new instance of the repeated sub-object.         *)
enter_repeat(S, i, sub) ==
    LET depth == S.ptr[i]
    IN IF sub \notin DOMAIN g.symbol_to_index THEN Fail(S, "KeyError")
       ELSE IF depth >= max_d THEN Fail(S, "IndexError")
       ELSE [S EXCEPT !.stack[i][depth] = <<g.symbol_to_index[sub], 1, 0>>,
                      !.ptr[i] = @ + 1,
                      !.stack[i][depth - 1] = <<@[1], @[2], @[3] + 1>>]

(* push_object leaving the stack as it is when it is full.                 *)
push_object_if_room(S, i, name) ==
    LET depth == S.ptr[i]
    IN IF name \notin DOMAIN g.symbol_to_index THEN Fail(S, "KeyError")
       ELSE IF depth >= max_d THEN S
       ELSE [S EXCEPT !.stack[i][depth] = <<g.symbol_to_index[name], 0, 0>>,
                      !.ptr[i] = @ + 1]

(* push_object moving the parent past the embedded object at once.         *)
push_object_advancing(S, i, name) ==
    LET depth == S.ptr[i]
    IN IF name \notin DOMAIN g.symbol_to_index THEN Fail(S, "KeyError")
       ELSE IF depth >= max_d THEN Fail(S, "IndexError")
       ELSE [S EXCEPT !.stack[i][depth] = <<g.symbol_to_index[name], 0, 0>>,
                      !.ptr[i] = @ + 1,
                      !.stack[i][depth - 1] = <<@[1], @[2] + 1, 0>>]

(* Lines 252-255: enter an embedded object.                                *)
push_object(S, i, name) ==
    LET depth == S.ptr[i]
    IN IF name \notin DOMAIN g.symbol_to_index THEN Fail(S, "KeyError")
       ELSE IF depth >= max_d THEN Fail(S, "IndexError")
       ELSE [S EXCEPT !.stack[i][depth] = <<g.symbol_to_index[name], 0, 0>>,
                      !.ptr[i] = @ + 1]

(* advance_ptr that resets the repeat count and leaves the pointer.        *)
advance_ptr_stay(S, i) ==
    [S EXCEPT !.stack[i][S.ptr[i] - 1] = <<@[1], @[2], 0>>]

(* Lines 248-249 and 258-259: next token of the same object.               *)
advance_ptr(S, i) ==
    [S EXCEPT !.stack[i][S.ptr[i] - 1] = <<@[1], @[2] + 1, 0>>]

_apply_token(S, i, curr, tok, rep_cnt) ==
    IF curr.k = "dict" THEN
        LET first == first_literals(curr.v.sub)
        IN IF first.err # "none" THEN Fail(S, first.err)
           ELSE IF ~InSeq(tok, first.val) THEN _pop_and_advance(S, i)
           ELSE IF ~wrap_pred(curr.v.raw, rep_cnt) THEN enter_repeat(S, i, curr.v.sub)
           ELSE advance_ptr(S, i)
    ELSE IF curr.k = "str" THEN push_object(S, i, curr.v)
    ELSE advance_ptr(S, i)

(* The body of the for loop of fast_is_valid for row i; L carries the      *)
(* parser and the validity mask built so far.                              *)
valid_row(L, i, tok) ==
    IF L.S.ptr[i] = 0 THEN L
    ELSE IF is_cached(L.S, i, tok) THEN
        LET S1 == append_token(L.S, i, tok)
            fr == top_frame(S1, i)
            curr_tok == token_at(fr[1], fr[2])
        IN [S |-> IF curr_tok.err # "none" THEN Fail(S1, curr_tok.err)
                  ELSE _apply_token(S1, i, curr_tok.val, tok, fr[3]),
            mask |-> [L.mask EXCEPT ![i] = TRUE]]
    ELSE L

RECURSIVE valid_rows(_, _, _)
valid_rows(L, tokens, i) ==
    IF i >= L.S.bs \/ L.S.err # "none" THEN L
    ELSE valid_rows(valid_row(L, i, tokens[i]), tokens, i + 1)

(* fast_is_valid without line 173, the refresh of the cache.               *)
fast_is_valid_no_refresh(S, tokens) ==
    valid_rows([S |-> S, mask |-> [i \in RowsOf(S) |-> FALSE]], tokens, 0)

fast_is_valid(S, tokens) ==
    LET L == valid_rows([S |-> S, mask |-> [i \in RowsOf(S) |-> FALSE]], tokens, 0)
    IN IF L.S.err # "none" THEN L
       ELSE [S |-> _refresh_next(L.S), mask |-> L.mask]

(* mask_row reading the whole cache row instead of its first k entries.    *)
mask_row_whole_cache(S, i, vocab_size) ==
    [t \in 0..(vocab_size - 1) |->
        IF \E n \in 0..(max_n - 1) : S.next_cache[i][n] = t
        THEN 0 ELSE fill_value]

(* Line 188: mask[i, self.next_cache[i, :k]] = 0.0 (a negative index       *)
(* counts from the end of the row).                                        *)
mask_row(S, i, vocab_size) ==
    [t \in 0..(vocab_size - 1) |->
        IF \E n \in 0..(S.next_lens[i] - 1) :
              S.next_cache[i][n] = t \/ S.next_cache[i][n] + vocab_size = t
        THEN 0 ELSE fill_value]

next_token_mask(S, vocab_size) ==
    IF \E i \in RowsOf(S) : \E n \in 0..(S.next_lens[i] - 1) :
          S.next_cache[i][n] >= vocab_size \/ S.next_cache[i][n] < -vocab_size
    THEN Raise("IndexError")
    ELSE Ok([i \in RowsOf(S) |-> mask_row(S, i, vocab_size)])

get_sequences(S) ==
    [i \in RowsOf(S) |-> [j \in 1..S.lens[i] |-> S.seqs[i][j - 1]]]

(* [[id2token[t] for t in seq] for seq in self.get_sequences()]            *)
decode_sequences(S, id2token) ==
    LET sequences == get_sequences(S)
    IN IF \E i \in RowsOf(S) : \E j \in 1..Len(sequences[i]) :
             sequences[i][j] \notin DOMAIN id2token
       THEN Raise("KeyError")
       ELSE Ok([i \in RowsOf(S) |->
                   [j \in 1..Len(sequences[i]) |-> id2token[sequences[i][j]]]])

-----------------------------------------------------------------------------
(* The live part of row i's stack: its frames below the depth pointer.     *)
Config(S, i) == [d \in 1..S.ptr[i] |-> S.stack[i][d - 1]]

(* The state after TorchGrammarBatchParser(G, batch_size=n).               *)
InitWith(G, n, c) ==
    /\ g = G
    /\ bs = n
    /\ stack = [i \in 0..(n - 1) |-> [d \in 0..(max_d - 1) |-> <<-1, -1, -1>>]]
    /\ ptr = [i \in 0..(n - 1) |-> 0]
    /\ seqs = [i \in 0..(n - 1) |-> [pos \in 0..(max_l - 1) |-> -1]]
    /\ lens = [i \in 0..(n - 1) |-> 0]
    /\ next_cache = [i \in 0..(n - 1) |-> [k \in 0..(max_n - 1) |-> -1]]
    /\ next_lens = [i \in 0..(n - 1) |-> 0]
    /\ op = "init"
    /\ args = <<>>
    /\ ret = <<>>
    /\ err = "none"
    /\ hist = [i \in 0..(n - 1) |-> <<>>]
    /\ visited = [i \in 0..(n - 1) |-> {<<>>}]
    /\ caller = c

Commit(S) ==
    /\ stack' = S.stack
    /\ ptr' = S.ptr
    /\ seqs' = S.seqs
    /\ lens' = S.lens
    /\ next_cache' = S.next_cache
    /\ next_lens' = S.next_lens
    /\ err' = S.err

SetBatch ==
    /\ err = "none"
    /\ caller.set_batch > 0
    /\ \E root_objects \in caller.root_lists :
          LET S == set_batch(Parser, root_objects)
          IN /\ Commit(S)
             /\ op' = "set_batch"
             /\ args' = root_objects
             /\ ret' = <<>>
             /\ hist' = [i \in Rows |-> IF i < Len(root_objects) THEN <<>> ELSE hist[i]]
             /\ visited' = [i \in Rows |-> IF i < Len(root_objects) THEN {Config(S, i)}
                                           ELSE visited[i]]
    /\ caller' = [caller EXCEPT !.set_batch = @ - 1]
    /\ UNCHANGED <<g, bs>>

(* The token vectors the caller passes to fast_is_valid: the rows of its    *)
(* table of tests, or any vector over its vocabulary if it has no table.   *)
TokenVectors ==
    IF caller.tests # {} THEN caller.tests ELSE [Rows -> caller.vocab]

FastIsValid ==
    /\ err = "none"
    /\ \A i \in Rows : Len(hist[i]) < caller.accepts
    /\ \E tokens \in TokenVectors :
          LET L == fast_is_valid(Parser, tokens)
          IN /\ Commit(L.S)
             /\ op' = "fast_is_valid"
             /\ args' = tokens
             /\ ret' = IF L.S.err = "none" THEN L.mask ELSE <<>>
             /\ hist' = [i \in Rows |-> IF L.mask[i] THEN Append(hist[i], tokens[i])
                                        ELSE hist[i]]
             /\ visited' = [i \in Rows |-> IF L.mask[i]
                                           THEN visited[i] \cup {Config(L.S, i)}
                                           ELSE visited[i]]
    /\ UNCHANGED <<g, bs, caller>>

(* NextTokenMask emptying the cache it has read.                           *)
NextTokenMask_consuming ==
    /\ err = "none"
    /\ \E vocab_size \in caller.sizes :
          LET m == next_token_mask(Parser, vocab_size)
          IN /\ op' = "next_token_mask"
             /\ args' = vocab_size
             /\ ret' = m.val
             /\ err' = m.err
    /\ next_lens' = [i \in Rows |-> 0]
    /\ UNCHANGED <<g, bs, stack, ptr, seqs, lens, next_cache,
                   hist, visited, caller>>

NextTokenMask ==
    /\ err = "none"
    /\ \E vocab_size \in caller.sizes :
          LET m == next_token_mask(Parser, vocab_size)
          IN /\ op' = "next_token_mask"
             /\ args' = vocab_size
             /\ ret' = m.val
             /\ err' = m.err
    /\ UNCHANGED <<g, bs, stack, ptr, seqs, lens, next_cache, next_lens,
                   hist, visited, caller>>

GetSequences ==
    /\ err = "none"
    /\ op' = "get_sequences"
    /\ args' = <<>>
    /\ ret' = get_sequences(Parser)
    /\ UNCHANGED <<g, bs, stack, ptr, seqs, lens, next_cache, next_lens, err,
                   hist, visited, caller>>

DecodeSequences ==
    /\ err = "none"
    /\ \E id2token \in caller.tables :
          LET d == decode_sequences(Parser, id2token)
          IN /\ op' = "decode_sequences"
             /\ args' = id2token
             /\ ret' = d.val
             /\ err' = d.err
    /\ UNCHANGED <<g, bs, stack, ptr, seqs, lens, next_cache, next_lens,
                   hist, visited, caller>>

Next == SetBatch \/ FastIsValid \/ NextTokenMask \/ GetSequences \/ DecodeSequences

-----------------------------------------------------------------------------
(* A grammar over the ids 1..3 with every kind of token: a single-token    *)
(* and a two-token sub-object, an embedded object, repeat groups with an   *)
(* integer bound and with a callable, in the middle and at the end of a    *)
(* production, groups that allow no repetition, a range, an enumeration and *)
(* an empty production.                                                    *)
Grammar1 ==
    LET G0 == TorchGrammar
        G1 == add_object(G0, "Z", <<Lit(2)>>)
        G2 == add_object(G1, "Q", <<Lit(2), Lit(1)>>)
        G3 == add_object(G2, "P", <<Lit(1), Ref("Q"), Lit(3)>>)
        G4 == add_object(G3, "E", <<Lit(1), Rep("Z", Bound(2)), Lit(3), Lit(1)>>)
        G5 == add_object(G4, "C", <<Lit(1), Rep("Z", Bound(0))>>)
        G6 == add_object(G5, "R", <<Ref("C"), Lit(3)>>)
        G7 == add_object(G6, "D", <<Rep("Z", Bound(0))>>)
        G8 == add_object(G7, "W", <<Rep("Z", Bound(0)), Lit(2), Lit(3)>>)
        G9 == add_object(G8, "T", <<Tup(<<1, 2>>), Tup(<<3, 1, 2>>)>>)
        G10 == add_object(G9, "Y", <<Lit(1), Rep("Q", Lambda(2)), Lit(3)>>)
        G11 == add_object(G10, "N", <<>>)
    IN G11

(* A vocabulary table for the ids of Grammar1.                             *)
Names1 == (1 :> "a") @@ (2 :> "b") @@ (3 :> "c")

(* The root lists the caller of Spec passes to set_batch.                  *)
Roots1 == {<<"P", "E">>, <<"R", "Y">>, <<"D", "T">>, <<"W", "C">>, <<"N", "Q">>, <<"E">>}

MaxAccepts == 6
BatchSize == 2

(* The caller of Spec initialises the batch once and then accepts up to    *)
(* MaxAccepts ids per row, reading the mask and the sequences in between.  *)
Init ==
    InitWith(Grammar1, BatchSize,
             [set_batch |-> 1, accepts |-> MaxAccepts,
              root_lists |-> Roots1, vocab |-> 1..3, sizes |-> {4},
              tests |-> {}, tables |-> {Names1}])

Spec == Init /\ [][Next]_vars

(* The caller of SpecLong drives one row through R -> ["C", 3] with the id *)
(* 1 for more than max_l accepts.                                          *)
LongAccepts == 130

InitLong ==
    InitWith(Grammar1, 1,
             [set_batch |-> 1, accepts |-> LongAccepts,
              root_lists |-> {<<"R">>}, vocab |-> {1}, sizes |-> {4},
              tests |-> {}, tables |-> {Names1}])

SpecLong == InitLong /\ [][Next]_vars

(* The caller of SpecReset calls set_batch a second time on a parser that  *)
(* may have accepted ids.                                                  *)
ResetAccepts == 2

InitReset ==
    InitWith(Grammar1, BatchSize,
             [set_batch |-> 2, accepts |-> ResetAccepts,
              root_lists |-> {<<"Q", "Z">>, <<"D", "P">>, <<"E">>}, vocab |-> 1..2,
              sizes |-> {4},
              tests |-> {}, tables |-> {Names1}])

SpecReset == InitReset /\ [][Next]_vars

(* The caller of SpecPair drives two rows at once, one through a repeat    *)
(* group or an embedded object while the other completes or cycles.        *)
PairAccepts == 4

InitPair ==
    InitWith(Grammar1, BatchSize,
             [set_batch |-> 1, accepts |-> PairAccepts,
              root_lists |-> {<<"E", "Q">>, <<"R", "Y">>, <<"Z", "P">>}, vocab |-> 1..2,
              sizes |-> {4},
              tests |-> {}, tables |-> {Names1}])

SpecPair == InitPair /\ [][Next]_vars

-----------------------------------------------------------------------------
(* The sanity check of __main__.                                           *)

(* Lines 320-321: a symbol with an index and no production.                *)
use_symbol(G, name) ==
    LET values == {G.symbol_to_index[n] : n \in DOMAIN G.symbol_to_index}
        idx == (CHOOSE m \in values : \A v \in values : v <= m) + 1
    IN [G EXCEPT !.symbol_to_index = (name :> idx) @@ @,
                 !.index_to_symbol = (idx :> name) @@ @]

(* Lines 314-321.                                                          *)
GrammarMain ==
    LET G0 == TorchGrammar
        G1 == add_object(G0, "Z", <<Lit(16), Lit(17)>>)
        G2 == add_object(G1, "Y", <<Lit(12), Lit(13), Rep("Z", Lambda(2)), Lit(15)>>)
        G3 == add_object(G2, "X", <<Lit(1), Lit(2), Tup(<<3, 5>>), Lit(6)>>)
    IN use_symbol(G3, "USE_Z_0")

(* Lines 326-335.                                                          *)
tests ==
    << <<12, 1, 12>>,
       <<13, 2, 13>>,
       <<16, 3, 16>>,
       <<17, 5, 17>>,
       <<16, 6, 15>>,
       <<17, 6, 16>>,
       <<16, 6, 16>>,
       <<15, 6, 16>> >>

(* torch.tensor(toks): the list toks with 0-based indices.                 *)
Tensor(toks) == [i \in 0..(Len(toks) - 1) |-> toks[i + 1]]

(* A vocabulary table for the ids of GrammarMain.                          *)
NamesMain ==
    (1 :> "x1") @@ (2 :> "x2") @@ (3 :> "x3") @@ (4 :> "x4") @@ (5 :> "x5") @@
    (6 :> "x6") @@ (12 :> "y1") @@ (13 :> "y2") @@ (15 :> "y4") @@
    (16 :> "z1") @@ (17 :> "z2")

(* The caller of SpecMain builds the parser of line 323, calls             *)
(* set_batch(["Y", "X", "Y"]) and then passes rows of the table of tests   *)
(* to fast_is_valid, in the order of the table or in any other, until a    *)
(* row has accepted MainAccepts ids.                                       *)
MainAccepts == 7

InitMain ==
    InitWith(GrammarMain, 3,
             [set_batch |-> 1, accepts |-> MainAccepts,
              root_lists |-> {<<"Y", "X", "Y">>}, vocab |-> {},
              sizes |-> {20},
              tests |-> {Tensor(tests[n]) : n \in 1..Len(tests)},
              tables |-> {NamesMain}])

SpecMain == InitMain /\ [][Next]_vars

-----------------------------------------------------------------------------
(* A grammar that reaches the limits of the parser: an object that embeds  *)
(* itself, an object that repeats itself, a range of max_n ids, a range of *)
(* max_n + 1 ids, and a group whose exit path and repeat path have more    *)
(* than max_n ids together.                                                *)
GrammarDeep ==
    LET G0 == TorchGrammar
        G1 == add_object(G0, "A", <<Lit(1), Ref("A")>>)
        G2 == add_object(G1, "B", <<Lit(1), Rep("B", Bound(1))>>)
        G3 == add_object(G2, "F", <<Tup(<<1, max_n>>)>>)
        G4 == add_object(G3, "V", <<Tup(<<1, max_n + 1>>)>>)
        G5 == add_object(G4, "H", <<Tup(<<21, max_n + 1>>)>>)
        G6 == add_object(G5, "W", <<Lit(1), Rep("H", Bound(1)), Tup(<<1, 20>>)>>)
    IN G6

(* The caller of SpecDeep drives rows into the recursive objects until the *)
(* stack is full, and initialises rows with the wide objects.              *)
DeepAccepts == 33

InitDeep ==
    InitWith(GrammarDeep, 2,
             [set_batch |-> 1, accepts |-> DeepAccepts,
              root_lists |-> {<<"A">>, <<"B">>, <<"A", "B">>, <<"F", "W">>, <<"W", "A">>,
                              <<"A", "V">>},
              vocab |-> {1}, sizes |-> {max_n + 2},
              tests |-> {}, tables |-> {Names1}])

SpecDeep == InitDeep /\ [][Next]_vars

-----------------------------------------------------------------------------
(* A grammar with names used before they are registered (L, T) and with a  *)
(* name that is never registered (U), as an embedded object, as the        *)
(* sub-object of a group that may and of a group that may not be entered,  *)
(* and as the token after a group.                                         *)
GrammarNames ==
    LET G0 == TorchGrammar
        G1 == add_object(G0, "F", <<Lit(1), Ref("L"), Lit(3)>>)
        G2 == add_object(G1, "O", <<Lit(1), Rep("T", Bound(1)), Lit(3)>>)
        G3 == add_object(G2, "L", <<Lit(2)>>)
        G4 == add_object(G3, "T", <<Lit(2), Lit(1)>>)
        G5 == add_object(G4, "M", <<Lit(1), Ref("U")>>)
        G6 == add_object(G5, "K", <<Ref("U")>>)
        G7 == add_object(G6, "H", <<Lit(1), Rep("U", Bound(1)), Lit(3)>>)
        G8 == add_object(G7, "J", <<Lit(1), Rep("U", Bound(0)), Lit(3)>>)
        G9 == add_object(G8, "I", <<Lit(1), Rep("L", Bound(1)), Ref("U")>>)
    IN G9

NamesAccepts == 3

InitNames ==
    InitWith(GrammarNames, 2,
             [set_batch |-> 1, accepts |-> NamesAccepts,
              root_lists |-> {<<"F", "M">>, <<"K">>, <<"H", "O">>, <<"J", "I">>,
                              <<"O", "F">>, <<"F", "J">>, <<"O", "K">>},
              vocab |-> 1..3, sizes |-> {4},
              tests |-> {}, tables |-> {Names1}])

SpecNames == InitNames /\ [][Next]_vars

-----------------------------------------------------------------------------
(* expand_literal on its own: a static method, called here without a       *)
(* parser.  The tokens are those of the type Token over the ids 0..MaxId:  *)
(* an int, a tuple of up to MaxTuple ints, the name of an object, a dict   *)
(* for a repeat group.                                                     *)
MaxId == 3
MaxTuple == 4

Tuples == UNION {[1..n -> 0..MaxId] : n \in 0..MaxTuple}

Literals == {Lit(n) : n \in 0..MaxId}
TupleTokens == {Tup(t) : t \in Tuples}
Names == {Ref(name) : name \in {"Z", "Q"}}
Groups == {Rep(sub, raw) : sub \in {"Z", "Q"}, raw \in {Bound(0), Bound(2), Lambda(2)}}

InitExpand ==
    /\ g = TorchGrammar
    /\ bs = 0
    /\ stack = <<>> /\ ptr = <<>>
    /\ seqs = <<>> /\ lens = <<>>
    /\ next_cache = <<>> /\ next_lens = <<>>
    /\ op = "init"
    /\ \/ args \in Literals
       \/ args \in TupleTokens
       \/ args \in Names
       \/ args \in Groups
    /\ ret = <<>>
    /\ err = "none"
    /\ hist = <<>> /\ visited = <<>>
    /\ caller = [set_batch |-> 0, accepts |-> 0, root_lists |-> {}, vocab |-> {},
                 sizes |-> {}, tests |-> {}, tables |-> {}]

ExpandLiteral ==
    /\ op = "init"
    /\ LET ids == expand_literal(args)
       IN /\ op' = "expand_literal"
          /\ ret' = ids.val
          /\ err' = ids.err
    /\ UNCHANGED <<g, bs, stack, ptr, seqs, lens, next_cache, next_lens, args,
                   hist, visited, caller>>

SpecExpand == InitExpand /\ [][ExpandLiteral]_vars

-----------------------------------------------------------------------------
(* The caller of SpecRead reads between the accepts: the mask for a        *)
(* vocabulary that holds every id of Grammar1 and for one that does not    *)
(* hold the id 3, the sequences, and the sequences decoded with a table    *)
(* that names every id and with one that names only the id 1.              *)
ReadAccepts == 3

InitRead ==
    InitWith(Grammar1, 2,
             [set_batch |-> 1, accepts |-> ReadAccepts,
              root_lists |-> {<<"P", "E">>, <<"T", "Y">>, <<"N", "Q">>},
              vocab |-> 1..3, sizes |-> {3, 4},
              tests |-> {}, tables |-> {Names1, (1 :> "a")}])

SpecRead == InitRead /\ [][Next]_vars

-----------------------------------------------------------------------------
(* A grammar of repeat groups: followed by an embedded object, by a range, *)
(* by an enumeration, by a literal and by nothing; with an integer bound   *)
(* and with a callable; allowing two, one and no repetition; over          *)
(* sub-objects that start with a literal and with a range.                 *)
GrammarGroups ==
    LET G0 == TorchGrammar
        G1 == add_object(G0, "Z", <<Lit(2)>>)
        G2 == add_object(G1, "Q", <<Lit(2), Lit(1)>>)
        G3 == add_object(G2, "S", <<Tup(<<1, 2>>), Lit(3)>>)
        G4 == add_object(G3, "A", <<Lit(1), Rep("Z", Bound(1)), Ref("Q"), Lit(3)>>)
        G5 == add_object(G4, "B", <<Lit(1), Rep("Q", Lambda(2)), Tup(<<2, 3>>)>>)
        G6 == add_object(G5, "C", <<Lit(1), Rep("Z", Bound(0))>>)
        G7 == add_object(G6, "D", <<Rep("Z", Bound(2))>>)
        G8 == add_object(G7, "E", <<Lit(1), Rep("S", Bound(1)), Tup(<<3, 1, 2>>)>>)
        G9 == add_object(G8, "G", <<Rep("Z", Bound(0)), Lit(3), Lit(1)>>)
    IN G9

GroupAccepts == 4

InitGroups ==
    InitWith(GrammarGroups, 2,
             [set_batch |-> 1, accepts |-> GroupAccepts,
              root_lists |-> {<<"A", "B">>, <<"C", "D">>, <<"E", "G">>, <<"B", "E">>},
              vocab |-> 1..3, sizes |-> {4},
              tests |-> {}, tables |-> {Names1}])

SpecGroups == InitGroups /\ [][Next]_vars

-----------------------------------------------------------------------------
(* A grammar of embedded objects: in the middle, at the start and at the   *)
(* end of a production, nested twice, with one and with two tokens, next   *)
(* to the groups of Grammar1 that may and that may not be entered.         *)
GrammarFrames ==
    LET G0 == TorchGrammar
        G1 == add_object(G0, "Z", <<Lit(2)>>)
        G2 == add_object(G1, "Q", <<Lit(2), Lit(1)>>)
        G3 == add_object(G2, "P", <<Lit(1), Ref("Q"), Lit(3)>>)
        G4 == add_object(G3, "U", <<Lit(3), Ref("P")>>)
        G5 == add_object(G4, "K", <<Ref("Q"), Ref("Z")>>)
        G6 == add_object(G5, "C", <<Lit(1), Rep("Z", Bound(0))>>)
        G7 == add_object(G6, "R", <<Ref("C"), Lit(3)>>)
        G8 == add_object(G7, "E", <<Lit(1), Rep("Q", Bound(1)), Lit(3), Lit(1)>>)
        G9 == add_object(G8, "V", <<Ref("Z"), Rep("Z", Bound(1))>>)
    IN G9

FrameAccepts == 7

InitFrames ==
    InitWith(GrammarFrames, 2,
             [set_batch |-> 1, accepts |-> FrameAccepts,
              root_lists |-> {<<"P", "U">>, <<"K", "R">>, <<"E", "V">>, <<"U", "K">>},
              vocab |-> 1..3, sizes |-> {4},
              tests |-> {}, tables |-> {Names1}])

SpecFrames == InitFrames /\ [][Next]_vars

-----------------------------------------------------------------------------
(* What the claims read.                                                   *)

(* The cached legal ids of row i, in cache order, and as a set.            *)
Legal(i) == [n \in 1..next_lens[i] |-> next_cache[i][n - 1]]
LegalSet(i) == {next_cache[i][n] : n \in 0..(next_lens[i] - 1)}

(* Everything the parser holds for row i.                                  *)
RowState(i) == <<stack[i], ptr[i], seqs[i], lens[i], next_cache[i], next_lens[i]>>

(* The last call was fast_is_valid (set_batch) and it returned.            *)
Accepted == op = "fast_is_valid" /\ err = "none"
Initialized == op = "set_batch" /\ err = "none"

(* A parser of batch size 1 holding row i of S.                            *)
Solo(S, i) ==
    [bs |-> 1, stack |-> [r \in {0} |-> S.stack[i]], ptr |-> [r \in {0} |-> S.ptr[i]],
     seqs |-> [r \in {0} |-> S.seqs[i]], lens |-> [r \in {0} |-> S.lens[i]],
     next_cache |-> [r \in {0} |-> S.next_cache[i]],
     next_lens |-> [r \in {0} |-> S.next_lens[i]], err |-> "none"]

(* S with its rows reordered: row r holds row pi[r] of S.                  *)
Reordered(S, pi) ==
    [bs |-> S.bs, stack |-> [r \in RowsOf(S) |-> S.stack[pi[r]]],
     ptr |-> [r \in RowsOf(S) |-> S.ptr[pi[r]]],
     seqs |-> [r \in RowsOf(S) |-> S.seqs[pi[r]]],
     lens |-> [r \in RowsOf(S) |-> S.lens[pi[r]]],
     next_cache |-> [r \in RowsOf(S) |-> S.next_cache[pi[r]]],
     next_lens |-> [r \in RowsOf(S) |-> S.next_lens[pi[r]]], err |-> S.err]

Orders == {pi \in [Rows -> Rows] : \A a, b \in Rows : pi[a] = pi[b] => a = b}

RowOf(S, r) ==
    <<S.stack[r], S.ptr[r], S.seqs[r], S.lens[r], S.next_cache[r], S.next_lens[r]>>

-----------------------------------------------------------------------------
(* C1. Rejection purity: a fast_is_valid call whose id for row i is not in *)
(* row i's cached legal ids returns False for row i and leaves the row's   *)
(* stack, depth pointer, sequence buffer and length, cache and cache count *)
(* as they were, the refresh at the end of the call included.              *)
C1_RejectionPurity ==
    [][Accepted' =>
          \A i \in Rows : args'[i] \notin LegalSet(i) =>
                             ret'[i] = FALSE /\ RowState(i)' = RowState(i)]_vars

(* A call that rejected the id of a row with a non-empty cache and         *)
(* accepted the id of another row.                                         *)
C1_Witness ==
    /\ Accepted
    /\ \E i, j \in Rows : /\ ~ret[i] /\ ptr[i] > 0 /\ next_lens[i] > 0
                          /\ args[i] \notin LegalSet(i)
                          /\ ret[j]

(* C2. The sequence buffer of a row holds, in order, exactly the ids for   *)
(* which fast_is_valid returned True for the row since set_batch.          *)
C2_SequencesAreTheAcceptedIds ==
    err = "none" => \A i \in Rows : get_sequences(Parser)[i] = hist[i]

(* C3. Cache consistency: after every call that returned, the cache of a   *)
(* row of depth 0 is empty, and the cache of any other row is              *)
(* _compute_valid of the row's top frame, whose pointer is inside its      *)
(* production.                                                             *)
C3_CacheConsistent ==
    err = "none" =>
        \A i \in Rows :
            IF ptr[i] = 0 THEN next_lens[i] = 0
            ELSE LET fr == top_frame(Parser, i)
                     tokens == rules_of_index(fr[1])
                 IN /\ tokens.err = "none"
                    /\ fr[2] >= 0 /\ fr[2] < Len(tokens.val)
                    /\ LET valid == _compute_valid(tokens.val[fr[2] + 1], fr[3],
                                                   tokens.val, fr[2])
                       IN valid.err = "none" /\ Legal(i) = valid.val

(* An accept that completed a sub-object: its frame was popped, and the    *)
(* cache holds the legal ids of the frame below.                           *)
C3_Witness ==
    /\ Accepted
    /\ \E i \in Rows : /\ ret[i] /\ ptr[i] = 1 /\ next_lens[i] > 0
                       /\ stack[i][1] # <<-1, -1, -1>>

(* C4. The terminal state is absorbing: a row of depth 0 has an empty      *)
(* cache, and every call other than set_batch leaves its depth 0 and its   *)
(* buffer and cache unchanged; fast_is_valid returns False for it.         *)
C4_TerminalAbsorbing ==
    [][\A i \in Rows :
          (ptr[i] = 0 /\ op' # "set_batch" /\ err' = "none") =>
              /\ next_lens[i] = 0
              /\ ptr'[i] = 0 /\ next_lens'[i] = 0
              /\ seqs'[i] = seqs[i] /\ lens'[i] = lens[i]
              /\ next_cache'[i] = next_cache[i]
              /\ (op' = "fast_is_valid" => ret'[i] = FALSE)]_vars

(* A row that accepted ids, reached depth 0 and was then offered another   *)
(* id, in a call that accepted the id of another row.                      *)
C4_Witness ==
    /\ Accepted
    /\ \E i, j \in Rows : ptr[i] = 0 /\ Len(hist[i]) > 0 /\ ~ret[i] /\ ret[j]

(* C5. Termination: a run that keeps accepting legal ids never comes back  *)
(* to a stack configuration it was in since set_batch (from which it could *)
(* repeat itself forever without reaching depth 0).                        *)
C5_NoConfigurationTwice ==
    [][Accepted' =>
          \A i \in Rows : ret'[i] => Config(Parser, i)' \notin visited[i]]_vars

(* C6. Monotonic progress: an accept that returns True for a row changes   *)
(* the row's stack configuration.                                          *)
C6_Progress ==
    [][Accepted' =>
          \A i \in Rows : ret'[i] => Config(Parser, i)' # Config(Parser, i)]_vars

(* An accept that pushed and popped a single-token sub-object of a repeat  *)
(* group: the depth and the pointer are the same, the repeat count is 1.   *)
C6_Witness ==
    /\ Accepted
    /\ \E i \in Rows : /\ ret[i] /\ ptr[i] = 1
                       /\ stack[i][0] = <<g.symbol_to_index["E"], 1, 1>>

(* C7. Slot independence: the result and the state of row i after          *)
(* fast_is_valid are those of a parser of batch size 1 that holds row i    *)
(* alone and is given tokens[i], and they are the same whatever the order  *)
(* of the rows in the batch.                                               *)
C7_SlotIndependence ==
    [][Accepted' =>
          /\ \A i \in Rows :
                LET L == fast_is_valid(Solo(Parser, i), [r \in {0} |-> args'[i]])
                IN /\ L.S.err = "none"
                   /\ ret'[i] = L.mask[0]
                   /\ RowState(i)' = RowOf(L.S, 0)
          /\ \A pi \in Orders :
                LET L == fast_is_valid(Reordered(Parser, pi),
                                       [r \in Rows |-> args'[pi[r]]])
                IN /\ L.S.err = "none"
                   /\ \A r \in Rows : /\ ret'[pi[r]] = L.mask[r]
                                      /\ RowState(pi[r])' = RowOf(L.S, r)]_vars

(* A call that accepted different ids for two rows.                        *)
C7_Witness ==
    /\ Accepted
    /\ \E i, j \in Rows : i # j /\ ret[i] /\ ret[j] /\ args[i] # args[j]

(* C8. next_token_mask(V) holds 0 at exactly the cached legal ids of each  *)
(* row and fill_value at every other index below V.                        *)
C8_MaskIsLegalSet ==
    (op = "next_token_mask" /\ err = "none") =>
        \A i \in Rows : \A t \in 0..(args - 1) :
            ret[i][t] = IF t \in LegalSet(i) THEN 0 ELSE fill_value

(* A mask read while one row's cache row still holds, beyond its count, an *)
(* id of an earlier, larger legal set, and another row is terminal.        *)
C8_Witness ==
    /\ op = "next_token_mask" /\ err = "none"
    /\ \E i, j \in Rows : /\ next_lens[i] > 0
                          /\ next_cache[i][next_lens[i]] \notin LegalSet(i) \cup {-1}
                          /\ ptr[j] = 0 /\ Len(hist[j]) > 0

(* C9. set_batch discards the prior state of the batch: after it, the      *)
(* sequence of every row it initialised is empty.                          *)
C9_SetBatchDiscards ==
    Initialized => \A i \in Rows : i < Len(args) => get_sequences(Parser)[i] = <<>>

(* C10, as claimed. After set_batch, every row whose root production is    *)
(* not empty has depth 1 with the single frame (index of the root, 0, 0),  *)
(* and its cache is the legal ids of the production's first token.         *)
C10_RootFrameAlways ==
    Initialized =>
        \A i \in Rows :
            (i < Len(args) /\ Len(g.raw_rules[args[i + 1]]) > 0) =>
                LET tokens == g.raw_rules[args[i + 1]]
                    valid == _compute_valid(tokens[1], 0, tokens, 0)
                IN /\ ptr[i] = 1
                   /\ stack[i][0] = <<g.symbol_to_index[args[i + 1]], 0, 0>>
                   /\ Legal(i) = valid.val

(* C10, amended. After set_batch, a row whose root production is not empty *)
(* and whose first token has legal ids has depth 1 with the single frame   *)
(* (index of the root, 0, 0) and these ids as its cache; any other row it  *)
(* initialised has depth 0 and an empty cache.                             *)
C10_RootFrame ==
    Initialized =>
        \A i \in Rows :
            i < Len(args) =>
                LET tokens == g.raw_rules[args[i + 1]]
                    valid == _compute_valid(tokens[1], 0, tokens, 0)
                IN IF Len(tokens) > 0 /\ Len(valid.val) > 0
                   THEN /\ ptr[i] = 1
                        /\ stack[i][0] = <<g.symbol_to_index[args[i + 1]], 0, 0>>
                        /\ Legal(i) = valid.val
                   ELSE ptr[i] = 0 /\ next_lens[i] = 0

(* A set_batch on a parser that had accepted ids, with a root whose first  *)
(* token is a repeat group without legal ids and a root that starts with a *)
(* literal.                                                                *)
C10_Witness ==
    /\ Initialized
    /\ args = <<"D", "P">>
    /\ lens[0] > 0
    /\ ptr[0] = 0 /\ ptr[1] = 1 /\ next_lens[1] > 0

-----------------------------------------------------------------------------
(* The sanity check, step by step.                                         *)

(* set_batch was called, and row i has accepted exactly its ids of the     *)
(* first k rows of the table of tests.                                     *)
Started == caller.set_batch = 0
Column(i, k) == [n \in 1..k |-> tests[n][i + 1]]
AfterSteps(k) == Started /\ err = "none" /\ \A i \in Rows : hist[i] = Column(i, k)

(* The call that is made now is fast_is_valid with row n of the table.     *)
Feeds(n) == op' = "fast_is_valid" /\ args' = Tensor(tests[n])

(* The repeat count of the root frame of row i.                            *)
RootRepeat(i) == stack[i][0][3]

(* C11. With the rows initialised with the roots Y, X, Y, the successive   *)
(* calls fast_is_valid([12, 1, 12]), ([13, 2, 13]) and ([16, 3, 16]) each  *)
(* return True for all three rows.                                         *)
C11_StepsOneToThree ==
    [][\A k \in 0..2 :
          AfterSteps(k) /\ Feeds(k + 1) =>
              err' = "none" /\ \A i \in Rows : ret'[i] = TRUE]_vars

(* The third call has returned True for the three rows.                    *)
C11_Witness ==
    /\ Accepted /\ AfterSteps(3)
    /\ args = Tensor(tests[3])
    /\ \A i \in Rows : ret[i]

(* C12 as stated. After the first three calls the legal ids of row 0 are   *)
(* exactly 16 and 17, the repeat count of Y is 1 and 15 is not legal.      *)
C12_LegalAfterStepThree ==
    AfterSteps(3) =>
        LegalSet(0) = {16, 17} /\ RootRepeat(0) = 1 /\ 15 \notin LegalSet(0)

(* C12, amended. After the first three calls row 0 is inside Z, past its   *)
(* first token: the only legal id of row 0 is 17, the repeat count of Y is *)
(* 1 and 15 is not legal.                                                  *)
C12_LegalInsideZ ==
    AfterSteps(3) =>
        /\ LegalSet(0) = {17}
        /\ RootRepeat(0) = 1
        /\ 15 \notin LegalSet(0)
        /\ Config(Parser, 0) = << <<g.symbol_to_index["Y"], 2, 1>>,
                                  <<g.symbol_to_index["Z"], 1, 0>> >>

(* The state after the first three calls, as the third call left it.       *)
C12_Witness ==
    /\ AfterSteps(3) /\ op = "fast_is_valid" /\ args = Tensor(tests[3])
    /\ ptr[0] = 2 /\ next_lens[0] = 1

(* C13 as stated. The fourth call, fast_is_valid([17, 5, 17]), returns     *)
(* True for all three rows.                                                *)
C13_StepFourAllTrue ==
    [][AfterSteps(3) /\ Feeds(4) =>
          err' = "none" /\ \A i \in Rows : ret'[i] = TRUE]_vars

(* C13, amended. The fourth call returns True for rows 0 and 2, where 17   *)
(* completes Z, and False for row 1: the range (3, 5) of X was consumed by *)
(* the id 3, the only legal id of row 1 is 6, and the row is left as it    *)
(* was.                                                                    *)
C13_StepFour ==
    [][AfterSteps(3) /\ Feeds(4) =>
          /\ err' = "none"
          /\ ret' = Tensor(<<TRUE, FALSE, TRUE>>)
          /\ LegalSet(1) = {6}
          /\ RowState(1)' = RowState(1)
          /\ hist'[0] = Column(0, 4) /\ hist'[1] = Column(1, 3)]_vars

(* The fourth call has returned.                                           *)
C13_Witness ==
    /\ Accepted /\ args = Tensor(tests[4])
    /\ hist[0] = Column(0, 4) /\ hist[1] = Column(1, 3) /\ hist[2] = Column(2, 4)
    /\ ret[0] /\ ~ret[1] /\ ret[2]

(* Row 0 has accepted 12, 13, 16, 17: one instance of Z is complete.       *)
OneInstance == Started /\ err = "none" /\ hist[0] = Column(0, 4)

(* Row 0 has accepted 12, 13, 16, 17, 16, 17: two instances are complete.  *)
TwoInstances == Started /\ err = "none" /\ hist[0] = Column(0, 6)

(* C14 as stated. After 12, 13, 16, 17 on row 0 the repeat count of Y is   *)
(* 2, the only legal id of row 0 is 15, and fast_is_valid returns False    *)
(* for the id 16 on row 0.                                                 *)
C14_ExitOnlyAfterOneInstance ==
    [][OneInstance =>
          /\ RootRepeat(0) = 2
          /\ LegalSet(0) = {15}
          /\ (op' = "fast_is_valid" /\ args'[0] = 16 => ret'[0] = FALSE)]_vars

(* C14, amended. After 12, 13, 16, 17 on row 0 the repeat count of Y is 1  *)
(* (it counts the instances entered), x >= 2 does not hold, the legal ids  *)
(* of row 0 are 15 and 16, and fast_is_valid returns True for the id 16 on *)
(* row 0, which makes the count 2.  After a second instance, 12, 13, 16,   *)
(* 17, 16, 17, the count was reset with the pointer of Y past the group,   *)
(* the only legal id is 15 and the id 16 is rejected.                      *)
C14_ExitOnlyAfterTwoInstances ==
    [][/\ OneInstance =>
             /\ RootRepeat(0) = 1
             /\ LegalSet(0) = {15, 16}
             /\ (op' = "fast_is_valid" /\ args'[0] = 16 =>
                    ret'[0] = TRUE /\ RootRepeat(0)' = 2)
       /\ TwoInstances =>
             /\ Config(Parser, 0) = << <<g.symbol_to_index["Y"], 3, 0>> >>
             /\ LegalSet(0) = {15}
             /\ (op' = "fast_is_valid" /\ args'[0] = 16 => ret'[0] = FALSE)]_vars

(* The id 16 was accepted on row 0 after one instance of Z.                *)
C14_Witness ==
    /\ Accepted /\ args[0] = 16 /\ ret[0]
    /\ hist[0] = Column(0, 5) /\ RootRepeat(0) = 2

-----------------------------------------------------------------------------
(* C15. Once the sequence buffer of a row holds max_l ids the row is       *)
(* exhausted: fast_is_valid returns False for the row and records nothing  *)
(* more, so that the number of True results of a row is its buffer length. *)
C15_ExhaustedAtMaxLength ==
    [][\A i \in Rows :
          lens[i] = max_l /\ Accepted' =>
              /\ ret'[i] = FALSE
              /\ lens'[i] = max_l /\ seqs'[i] = seqs[i]
              /\ Len(hist'[i]) = lens'[i]]_vars

-----------------------------------------------------------------------------
(* The token the top frame of row i points to, and all the legal ids of    *)
(* that token, however many.                                               *)
CurrentToken(i) == token_at(stack[i][ptr[i] - 1][1], stack[i][ptr[i] - 1][2])

FullLegal(i) ==
    LET fr == stack[i][ptr[i] - 1]
        tokens == rules_of_index(fr[1])
    IN _compute_valid(tokens.val[fr[2] + 1], fr[3], tokens.val, fr[2])

(* Accepting tok on row i pushes a frame: the current token is an embedded *)
(* object, or a repeat group entered by tok whose predicate is false.      *)
PushesFrame(i, tok) ==
    /\ ptr[i] > 0 /\ tok \in LegalSet(i)
    /\ LET curr == CurrentToken(i).val
       IN \/ curr.k = "str"
          \/ /\ curr.k = "dict"
             /\ InSeq(tok, first_literals(curr.v.sub).val)
             /\ ~wrap_pred(curr.v.raw, stack[i][ptr[i] - 1][3])

(* C16. Capacity errors are hard errors.  A fast_is_valid call that pushes *)
(* a frame on a stack of max_d frames raises, and so does a call that ends *)
(* with a top frame that has more than max_n legal ids; a call that        *)
(* returns leaves every row with at most max_d frames and with all the     *)
(* legal ids of its top frame in the cache.                                *)
C16_CapacityErrors ==
    [][/\ (op' = "fast_is_valid" /\ \E i \in Rows : ptr[i] = max_d /\ PushesFrame(i, args'[i]))
          => err' = "IndexError"
       /\ (op' \in {"set_batch", "fast_is_valid"}
           /\ \E i \in Rows : ptr'[i] > 0 /\ Len(FullLegal(i)'.val) > max_n)
          => err' = "RuntimeError"
       /\ (op' \in {"set_batch", "fast_is_valid"} /\ err' = "none")
          => \A i \in Rows :
                 /\ ptr'[i] <= max_d
                 /\ ptr'[i] > 0 => Legal(i)' = FullLegal(i)'.val]_vars

(* The call that raised with the stack of a row full.                      *)
C16_Witness ==
    /\ op = "fast_is_valid" /\ err = "IndexError"
    /\ \E i \in Rows : ptr[i] = max_d /\ args[i] \in LegalSet(i)

(* The call that raised with more than max_n legal ids for a row.          *)
C16_WideWitness ==
    /\ err = "RuntimeError"
    /\ \E i \in Rows : ptr[i] > 0 /\ Len(FullLegal(i).val) > max_n

-----------------------------------------------------------------------------
(* The name was never passed to add_object.                                *)
Unregistered(name) == name \notin DOMAIN g.raw_rules

(* Computing the legal ids of position idx of the production tokens, at    *)
(* the repeat count rep, has to resolve an unregistered name: the token is *)
(* an embedded object of that name, or a group followed by an embedded     *)
(* object of that name, or a group of that name that may be entered.       *)
Unresolved(tokens, idx, rep) ==
    /\ idx < Len(tokens)
    /\ LET tok == tokens[idx + 1]
       IN \/ tok.k = "str" /\ Unregistered(tok.v)
          \/ /\ tok.k = "dict"
             /\ \/ /\ idx + 1 < Len(tokens)
                   /\ tokens[idx + 2].k = "str" /\ Unregistered(tokens[idx + 2].v)
                \/ Unregistered(tok.v.sub) /\ ~(rep >= tok.v.raw.m)

(* The same for the top frame of row i.                                    *)
NeedsName(i) ==
    /\ ptr[i] > 0
    /\ LET fr == stack[i][ptr[i] - 1]
       IN Unresolved(g.raw_rules[g.index_to_symbol[fr[1]]], fr[2], fr[3])

(* fast_is_valid with tok for row i has to resolve an unregistered name:   *)
(* tok is legal, and the current token is a group of that name, or a       *)
(* literal followed by a position that has to resolve it.                  *)
AcceptNeedsName(i, tok) ==
    /\ ptr[i] > 0 /\ tok \in LegalSet(i)
    /\ LET fr == stack[i][ptr[i] - 1]
           tokens == g.raw_rules[g.index_to_symbol[fr[1]]]
           curr == tokens[fr[2] + 1]
       IN \/ curr.k = "dict" /\ Unregistered(curr.v.sub)
          \/ curr.k \in {"int", "tuple"} /\ Unresolved(tokens, fr[2] + 1, 0)

(* C17. add_object registers a production whatever names it references,    *)
(* registered before it, after it or never.  A reference to a name that is *)
(* registered by the time of use is resolved.  A reference to a name that  *)
(* is not registered raises KeyError in the first set_batch or             *)
(* fast_is_valid that has to resolve it, and only there: the reference is  *)
(* never skipped and never gives an empty set of legal ids.                *)
C17_LookupErrorAtFirstUse ==
    [][/\ \A name \in {"F", "O", "M", "K", "H", "J", "I"} :
              name \in DOMAIN g.raw_rules /\ name \in DOMAIN g.symbol_to_index
       /\ op' = "set_batch" =>
              (err' = "KeyError" <=>
                  \E i \in 0..(Len(args') - 1) : Unresolved(g.raw_rules[args'[i + 1]], 0, 0))
       /\ op' = "fast_is_valid" =>
              /\ err' \in {"none", "KeyError"}
              /\ (\E i \in Rows : AcceptNeedsName(i, args'[i])) => err' = "KeyError"
              /\ err' = "KeyError" =>
                     \E i \in Rows : AcceptNeedsName(i, args'[i]) \/ NeedsName(i)'
       /\ op' \in {"set_batch", "fast_is_valid"} =>
              ((\E i \in Rows : NeedsName(i)') => err' = "KeyError")]_vars

(* An accepted id moved a row to a reference to the unregistered name, and *)
(* the call raised.                                                        *)
C17_Witness ==
    /\ op = "fast_is_valid" /\ err = "KeyError"
    /\ \E i \in Rows : NeedsName(i) /\ lens[i] > 0

(* A row has entered L, registered after the production that embeds it.    *)
C17_ForwardWitness ==
    /\ Accepted
    /\ \E i \in Rows : /\ ptr[i] = 2 /\ ret[i]
                         /\ g.index_to_symbol[stack[i][0][1]] = "F"
                         /\ g.index_to_symbol[stack[i][1][1]] = "L"

-----------------------------------------------------------------------------
(* expand_literal was called with the token args.                          *)
Expanded == op = "expand_literal"

(* The shapes of a token specification.                                    *)
IsLiteral == args.k = "int"
IsRange == args.k = "tuple" /\ Len(args.v) = 2
IsEnumeration == args.k = "tuple" /\ Len(args.v) > 2
IsName == args.k = "str"
IsGroup == args.k = "dict"

(* ret is the list of the integers lo..hi in ascending order.              *)
Ascending(lo, hi) ==
    /\ {ret[j] : j \in 1..Len(ret)} = lo..hi
    /\ \A j \in 1..(Len(ret) - 1) : ret[j] < ret[j + 1]

(* C18 as stated. expand_literal gives [id] for Literal(id), the integers  *)
(* lo..hi in ascending order, hi - lo + 1 of them, for Range(lo, hi), the  *)
(* given ids in the given order for an Enumeration of more than two ids,   *)
(* and an error for an object name and for a repeat group.                 *)
C18_ReferenceExpansion ==
    Expanded =>
        /\ IsLiteral => err = "none" /\ ret = <<args.v>>
        /\ IsRange => /\ err = "none"
                      /\ Ascending(args.v[1], args.v[2])
                      /\ Len(ret) = args.v[2] - args.v[1] + 1
        /\ IsEnumeration => err = "none" /\ ret = args.v
        /\ IsName \/ IsGroup => err = "ValueError"

(* C18, amended. As stated, with the length of the expansion of            *)
(* Range(lo, hi) being hi - lo + 1 when lo <= hi and 0 when lo > hi; a     *)
(* tuple of fewer than two ids is returned as a list of the same ids.      *)
C18_Expansion ==
    Expanded =>
        /\ IsLiteral => err = "none" /\ ret = <<args.v>>
        /\ IsRange => /\ err = "none"
                      /\ Ascending(args.v[1], args.v[2])
                      /\ Len(ret) = IF args.v[1] <= args.v[2]
                                    THEN args.v[2] - args.v[1] + 1 ELSE 0
        /\ IsEnumeration => err = "none" /\ ret = args.v
        /\ args.k = "tuple" /\ Len(args.v) < 2 => err = "none" /\ ret = args.v
        /\ IsName \/ IsGroup => err = "ValueError"

(* A range of more than one id was expanded.                               *)
C18_Witness ==
    /\ Expanded /\ IsRange /\ args.v[1] < args.v[2]
    /\ Len(ret) = args.v[2] - args.v[1] + 1

-----------------------------------------------------------------------------
(* The reading methods, and what the parser holds for all rows.            *)
Readers == {"next_token_mask", "get_sequences", "decode_sequences"}
ParserState == <<stack, ptr, seqs, lens, next_cache, next_lens>>

(* The outcome of the call that was made last.                             *)
Outcome == [err |-> err, val |-> ret]

(* C19. Reading is pure and idempotent.  A call of next_token_mask,        *)
(* get_sequences or decode_sequences leaves the stack, depth pointer,      *)
(* sequence buffer and length, cache and cache count of every row as they  *)
(* were; the same call made again right after it has the same outcome; and *)
(* every reading call has the outcome after it that it had before it, so   *)
(* that any number of reads in any order return the same results until the *)
(* next set_batch or fast_is_valid.                                        *)
C19_ReadingIsPure ==
    [][op' \in Readers =>
          /\ ParserState' = ParserState
          /\ \A vocab_size \in caller.sizes :
                 /\ next_token_mask(Parser, vocab_size)' = next_token_mask(Parser, vocab_size)
                 /\ op' = "next_token_mask" /\ args' = vocab_size =>
                        next_token_mask(Parser, vocab_size)' = Outcome'
          /\ get_sequences(Parser)' = get_sequences(Parser)
          /\ op' = "get_sequences" => Ok(get_sequences(Parser)') = Outcome'
          /\ \A id2token \in caller.tables :
                 /\ decode_sequences(Parser, id2token)' = decode_sequences(Parser, id2token)
                 /\ op' = "decode_sequences" /\ args' = id2token =>
                        decode_sequences(Parser, id2token)' = Outcome']_vars

(* The sequences were decoded after a read of the mask, with ids recorded  *)
(* and legal ids in the cache.                                             *)
C19_Witness ==
    /\ op = "decode_sequences" /\ err = "none"
    /\ \E i \in Rows : lens[i] > 1 /\ Len(ret[i]) = lens[i] /\ next_lens[i] > 0

-----------------------------------------------------------------------------
(* The ids of a literal, range or enumeration token, and of the first      *)
(* token of the production of an object.                                   *)
LiteralSet(tok) ==
    IF tok.k = "int" THEN {tok.v}
    ELSE IF Len(tok.v) = 2 THEN tok.v[1]..tok.v[2]
    ELSE {tok.v[j] : j \in 1..Len(tok.v)}

FirstSet(name) == LiteralSet(g.raw_rules[name][1])

(* The production of the top frame of row i, its index k and its count.    *)
TopTokens(i) == g.raw_rules[g.index_to_symbol[stack[i][ptr[i] - 1][1]]]
TopIndex(i) == stack[i][ptr[i] - 1][2]
TopRepeat(i) == stack[i][ptr[i] - 1][3]

(* The current token of row i is a repeat group.                           *)
AtGroup(i) ==
    /\ ptr[i] > 0 /\ TopIndex(i) < Len(TopTokens(i))
    /\ TopTokens(i)[TopIndex(i) + 1].k = "dict"

(* (i) The exit path: the ids of the token after the group, none if the    *)
(* group is the last token.                                                *)
ExitSet(i) ==
    IF TopIndex(i) + 1 < Len(TopTokens(i))
    THEN LET nxt == TopTokens(i)[TopIndex(i) + 2]
         IN IF nxt.k = "str" THEN FirstSet(nxt.v) ELSE LiteralSet(nxt)
    ELSE {}

(* (ii) The repeat path: the ids of the first token of the sub-object, if  *)
(* and only if the predicate of the group is false at the repeat count.    *)
RepeatSet(i) ==
    LET group == TopTokens(i)[TopIndex(i) + 1].v
    IN IF TopRepeat(i) >= group.raw.m THEN {} ELSE FirstSet(group.sub)

(* C20. When the current token of the top frame of a row is a repeat group *)
(* at index k of its production, the legal ids of the row are exactly      *)
(* those of the exit path, whatever the repeat count, and those of the     *)
(* repeat path, present iff the predicate is false at the repeat count.    *)
C20_GroupLegalSet ==
    err = "none" =>
        \A i \in Rows : AtGroup(i) => LegalSet(i) = ExitSet(i) \cup RepeatSet(i)

(* A row at a group it has entered once and may enter again, with an exit  *)
(* path and a repeat path that differ.                                     *)
C20_Witness ==
    /\ Accepted
    /\ \E i \in Rows : /\ AtGroup(i) /\ TopRepeat(i) > 0
                         /\ ExitSet(i) # {} /\ RepeatSet(i) # {}
                         /\ ExitSet(i) # RepeatSet(i)

-----------------------------------------------------------------------------
(* Frames and productions of row i, for the claims on single accepts.      *)

(* The frame at depth d (1 is the root) of row i, and its production.      *)
Frame(i, d) == stack[i][d - 1]
Production(fr) == g.raw_rules[g.index_to_symbol[fr[1]]]

(* The token a frame points to; its pointer is inside its production.      *)
Inside(fr) == fr[2] >= 0 /\ fr[2] < Len(Production(fr))
TokenOf(fr) == Production(fr)[fr[2] + 1]

(* fast_is_valid returned True for row i in the call that is made now.     *)
Accepts(i) == Accepted' /\ ret'[i] = TRUE

(* The top frame of row i points to a literal, range or enumeration at the *)
(* last position of its production: accepting it completes the object.     *)
AtLastLiteral(i) ==
    /\ ptr[i] > 0
    /\ LET fr == Frame(i, ptr[i])
       IN /\ fr[2] = Len(Production(fr)) - 1
          /\ TokenOf(fr).k \in {"int", "tuple"}

(* The frame fr, moved to its next token, has legal ids.                   *)
HasLegalAfter(fr) ==
    /\ fr[2] + 1 < Len(Production(fr))
    /\ LET valid == _compute_valid(Production(fr)[fr[2] + 2], 0, Production(fr), fr[2] + 1)
       IN valid.err = "none" /\ Len(valid.val) > 0

(* C21. When the legal ids are recomputed, a frame whose pointer is at the *)
(* end of its production is popped and its parent is consulted, again and  *)
(* again, until the top frame has legal ids or the stack is empty.  The    *)
(* pop of a child entered through an embedded object moves the pointer of  *)
(* the parent by one and resets its repeat count; the pop of the root      *)
(* leaves depth 0 and no legal ids.                                        *)
C21_PopPastEnd ==
    [][\A i \in Rows :
          /\ Accepted' =>
                \/ ptr'[i] = 0 /\ next_lens'[i] = 0
                \/ ptr'[i] > 0 /\ Inside(Frame(i, ptr[i]))' /\ next_lens'[i] > 0
          /\ Accepts(i) /\ AtLastLiteral(i) =>
                /\ ptr'[i] < ptr[i]
                /\ ptr[i] = 1 => ptr'[i] = 0 /\ next_lens'[i] = 0
                /\ ptr[i] > 1 /\ TokenOf(Frame(i, ptr[i] - 1)).k = "str" =>
                      LET parent == Frame(i, ptr[i] - 1)
                      IN /\ ptr'[i] = ptr[i] - 1 <=> HasLegalAfter(parent)
                         /\ ptr'[i] = ptr[i] - 1 =>
                               stack'[i][ptr[i] - 2] = <<parent[1], parent[2] + 1, 0>>]_vars

(* The last token of an embedded object was accepted, and the parent is at *)
(* the token after the embedded object.                                    *)
C21_Witness ==
    /\ Accepted
    /\ \E i \in Rows : /\ ret[i] /\ ptr[i] = 1 /\ Frame(i, 1)[2] = 2
                       /\ g.index_to_symbol[Frame(i, 1)[1]] = "P"
                       /\ LegalSet(i) = {3}

-----------------------------------------------------------------------------
(* The current token of row i is an embedded object.                       *)
AtObjectRef(i) == ptr[i] > 0 /\ Inside(Frame(i, ptr[i])) /\ TokenOf(Frame(i, ptr[i])).k = "str"

(* C22. Accepting a legal id while the current token is an embedded object *)
(* pushes exactly one frame, (index of the object, pointer 0, repeat 0),   *)
(* and leaves the frames below it, the parent with its pointer and count   *)
(* included, as they were; a frame stays as it is for as long as it has a  *)
(* frame above it, so the parent moves past the embedded object only when  *)
(* the pushed frame is removed.                                            *)
C22_ObjectRefPush ==
    [][\A i \in Rows :
          /\ Accepts(i) /\ AtObjectRef(i) =>
                /\ ptr'[i] = ptr[i] + 1
                /\ stack'[i][ptr[i]] =
                      <<g.symbol_to_index[TokenOf(Frame(i, ptr[i])).v], 0, 0>>
                /\ \A d \in 1..ptr[i] : stack'[i][d - 1] = stack[i][d - 1]
          /\ Accepted' =>
                \A d \in 1..(ptr[i] - 1) : d < ptr'[i] => stack'[i][d - 1] = stack[i][d - 1]]_vars

(* A row has entered an embedded object below another embedded object: its *)
(* two parents still point to the embedded objects.                        *)
C22_Witness ==
    /\ Accepted
    /\ \E i \in Rows : /\ ret[i] /\ ptr[i] = 3
                       /\ TokenOf(Frame(i, 1)).k = "str" /\ TokenOf(Frame(i, 2)).k = "str"
                       /\ Frame(i, 3)[2] = 0 /\ Frame(i, 3)[3] = 0

-----------------------------------------------------------------------------
(* The group row i is at, and an accept on its repeat path: the id is a    *)
(* first id of the sub-object and the predicate of the group is false.     *)
GroupOf(i) == TopTokens(i)[TopIndex(i) + 1].v

RepeatPath(i) ==
    /\ Accepts(i) /\ AtGroup(i)
    /\ args'[i] \in FirstSet(GroupOf(i).sub)
    /\ TopRepeat(i) < GroupOf(i).raw.m

(* C23 as stated. An accept on the repeat path pushes a frame for the      *)
(* sub-object with pointer 0 and repeat 0 and adds 1 to the repeat count   *)
(* of the frame that owns the group, whose pointer stays on the group.     *)
C23_RepeatPushPointerZero ==
    [][\A i \in Rows :
          RepeatPath(i) =>
              LET owner == Frame(i, ptr[i])
              IN /\ ptr'[i] = ptr[i] + 1
                 /\ stack'[i][ptr[i]] = <<g.symbol_to_index[GroupOf(i).sub], 0, 0>>
                 /\ stack'[i][ptr[i] - 1] = <<owner[1], owner[2], owner[3] + 1>>]_vars

(* C23, amended. An accept on the repeat path pushes a frame for the       *)
(* sub-object with pointer 1, the accepted id being its position 0, and    *)
(* repeat 0, and adds 1 to the repeat count of the owner, whose pointer    *)
(* stays on the group.  A sub-object of one token is complete with that    *)
(* id: its frame is popped in the same call, and the owner stays on the    *)
(* group with the count added if the predicate is still false, and moves   *)
(* past the group otherwise.                                               *)
C23_RepeatPush ==
    [][\A i \in Rows :
          RepeatPath(i) =>
              LET owner == Frame(i, ptr[i])
                  sub == GroupOf(i).sub
              IN IF Len(g.raw_rules[sub]) > 1
                 THEN /\ ptr'[i] = ptr[i] + 1
                      /\ stack'[i][ptr[i]] = <<g.symbol_to_index[sub], 1, 0>>
                      /\ stack'[i][ptr[i] - 1] = <<owner[1], owner[2], owner[3] + 1>>
                 ELSE IF owner[3] + 1 < GroupOf(i).raw.m
                 THEN /\ ptr'[i] = ptr[i]
                      /\ stack'[i][ptr[i] - 1] = <<owner[1], owner[2], owner[3] + 1>>
                 ELSE /\ ptr'[i] <= ptr[i]
                      /\ ptr'[i] = ptr[i] =>
                            stack'[i][ptr[i] - 1] = <<owner[1], owner[2] + 1, 0>>]_vars

(* A second instance of a sub-object of two tokens was entered.            *)
C23_Witness ==
    /\ Accepted
    /\ \E i \in Rows : /\ ret[i] /\ ptr[i] = 2
                       /\ Frame(i, 2)[2] = 1 /\ Frame(i, 1)[3] = 2
                       /\ TokenOf(Frame(i, 1)).k = "dict"

-----------------------------------------------------------------------------
(* An accept on the exit path of the group row i is at: the id is legal    *)
(* and is not a first id of the sub-object, so it is an id of the literal  *)
(* that follows the group.                                                 *)
ExitPath(i) ==
    /\ Accepts(i) /\ AtGroup(i)
    /\ args'[i] \notin FirstSet(GroupOf(i).sub)
    /\ TopIndex(i) + 1 < Len(TopTokens(i))
    /\ TopTokens(i)[TopIndex(i) + 2].k \in {"int", "tuple"}

(* C24. An accept on the exit path of a group moves the frame that owns    *)
(* the group past the group and past the accepted token, with repeat count *)
(* 0: if tokens follow the accepted one, the owner stays on the stack and  *)
(* points to the first of them.                                            *)
C24_ExitContinuesOwner ==
    [][\A i \in Rows :
          ExitPath(i) /\ TopIndex(i) + 2 < Len(TopTokens(i)) =>
              LET owner == Frame(i, ptr[i])
              IN /\ ptr'[i] >= ptr[i]
                 /\ stack'[i][ptr[i] - 1][1] = owner[1]
                 /\ stack'[i][ptr[i] - 1][2] >= owner[2] + 2
                 /\ TokenOf(<<owner[1], owner[2] + 2, 0>>).k \in {"int", "tuple"} =>
                       /\ ptr'[i] = ptr[i]
                       /\ stack'[i][ptr[i] - 1] = <<owner[1], owner[2] + 2, 0>>]_vars

-----------------------------------------------------------------------------
(* The parser after the call that is made now, had the owner of the group  *)
(* of row i been past the group already, on the token that follows it.     *)
LateRoute(i) ==
    LET owner == Frame(i, ptr[i])
        past == [Parser EXCEPT !.stack[i][ptr[i] - 1] = <<owner[1], owner[2] + 1, 0>>]
    IN fast_is_valid(_refresh_next(past), args').S

(* C28. Exit-route equivalence: accepting the token t that follows a group *)
(* through the exit path, while the predicate of the group is false,       *)
(* leaves the row with the stack and the legal ids it has after accepting  *)
(* t as a plain token with the owner already past the group.               *)
C28_ExitRouteEquivalence ==
    [][\A i \in Rows :
          ExitPath(i) /\ TopRepeat(i) < GroupOf(i).raw.m =>
              /\ LateRoute(i).err = "none"
              /\ Config(Parser, i)' = Config(LateRoute(i), i)
              /\ Legal(i)' = [n \in 1..LateRoute(i).next_lens[i] |->
                                 LateRoute(i).next_cache[i][n - 1]]]_vars

-----------------------------------------------------------------------------
(* The depths of the stack.                                                *)
Depths == 1..max_d

(* The frame at depth d of row i is there before and after the call that   *)
(* is made now, a fast_is_valid that returned.                             *)
Persists(i, d) ==
    /\ Accepted' /\ d <= ptr[i] /\ d <= ptr'[i]
    /\ stack'[i][d - 1][1] = stack[i][d - 1][1]

(* The frame at depth d of row i stays on the same token.                  *)
Stays(i, d) == Persists(i, d) /\ stack'[i][d - 1][2] = stack[i][d - 1][2]

(* A nonzero repeat count is the count of a frame whose pointer is on a    *)
(* repeat group.                                                           *)
CountOnGroup ==
    \A i \in Rows : \A d \in Depths :
        d <= ptr[i] /\ Frame(i, d)[3] # 0 =>
            Inside(Frame(i, d)) /\ TokenOf(Frame(i, d)).k = "dict"

(* The repeat count of a frame whose pointer advances is 0.                *)
CountReset ==
    \A i \in Rows : \A d \in Depths :
        Persists(i, d) /\ stack'[i][d - 1][2] > stack[i][d - 1][2] =>
            stack'[i][d - 1][3] = 0

(* An instance of the group of the frame at depth d completes in the call  *)
(* that is made now: the frame is the top frame afterwards, and it had a   *)
(* frame above it or an instance was entered in this call.                 *)
Completes(i, d) ==
    /\ ptr'[i] = d
    /\ ptr[i] > d \/ (ptr[i] = d /\ RepeatPath(i))

(* C25 as stated. A repeat count is nonzero only while the pointer of its  *)
(* frame is on a repeat group, it is 0 after the pointer advanced, and the *)
(* count of a frame that stays on its token grows by one in the call that  *)
(* completes an instance of the sub-object and in no other.                *)
C25_CountsCompleted ==
    [][/\ Accepted' => CountOnGroup'
       /\ CountReset
       /\ \A i \in Rows : \A d \in Depths :
             Stays(i, d) /\ TokenOf(Frame(i, d)).k = "dict" =>
                 stack'[i][d - 1][3] =
                     stack[i][d - 1][3] + (IF Completes(i, d) THEN 1 ELSE 0)]_vars

(* C25, amended. A repeat count is nonzero only while the pointer of its   *)
(* frame is on a repeat group, it is 0 after the pointer advanced, and the *)
(* count of a frame that stays on its token grows by one in the call that  *)
(* enters an instance of the sub-object through the repeat path, the frame *)
(* being the top frame, and in no other: the count is the number of        *)
(* instances entered since the pointer reached the group.                  *)
C25_CountsEntered ==
    [][/\ Accepted' => CountOnGroup'
       /\ CountReset
       /\ \A i \in Rows : \A d \in Depths :
             Stays(i, d) =>
                 stack'[i][d - 1][3] =
                     stack[i][d - 1][3] + (IF d = ptr[i] /\ RepeatPath(i) THEN 1 ELSE 0)]_vars

(* An instance of two tokens was entered and is not complete: its frame is *)
(* on top of the owner, whose count is 1 already.                          *)
C25_Witness ==
    \E i \in Rows :
        /\ Accepted /\ ptr[i] = 2
        /\ Frame(i, 1)[3] = 1 /\ TokenOf(Frame(i, 1)).k = "dict"
        /\ Frame(i, 2) = <<g.symbol_to_index[TokenOf(Frame(i, 1)).v.sub], 1, 0>>
        /\ Len(Production(Frame(i, 2))) = 2

-----------------------------------------------------------------------------
(* C26. No stuck state: in every state the caller sees without an error, a *)
(* row of depth > 0 has legal ids and the pointer of its top frame is an   *)
(* index into its production; a row has no legal id iff its depth is 0.    *)
C26_NoStuckState ==
    err = "none" =>
        \A i \in Rows :
            /\ next_lens[i] >= 0 /\ ptr[i] >= 0
            /\ ptr[i] > 0 => next_lens[i] > 0 /\ Inside(Frame(i, ptr[i]))
            /\ next_lens[i] = 0 <=> ptr[i] = 0

(* After an accept one row is complete, depth 0 and no legal id, and a row *)
(* whose top frame is past its first token has legal ids.                  *)
C26_Witness ==
    /\ Accepted
    /\ \E i \in Rows : ptr[i] = 0 /\ next_lens[i] = 0 /\ Len(hist[i]) > 0
    /\ \E j \in Rows : ptr[j] > 0 /\ next_lens[j] > 0 /\ Frame(j, ptr[j])[2] > 0

-----------------------------------------------------------------------------
(* The accept that is made now pushes a frame for row i, and the frame is  *)
(* on the stack afterwards.                                                *)
Enters(i) ==
    /\ Accepts(i) /\ ptr'[i] = ptr[i] + 1
    /\ AtObjectRef(i) \/ RepeatPath(i)

(* C27. Entering a sub-object consumes its first token once, whichever way *)
(* it is entered: the accept that pushes the frame of a sub-object counts  *)
(* as position 0 of its production, so the pushed frame points to          *)
(* position 1 and, position 1 being a literal, a range or an enumeration,  *)
(* the ids that are legal next are the ids of position 1.                  *)
C27_FirstTokenOnce ==
    [][\A i \in Rows :
          Enters(i) =>
              LET sub == Production(stack'[i][ptr[i]])
              IN /\ args'[i] \in LiteralSet(sub[1])
                 /\ stack'[i][ptr[i]][2] = 1
                 /\ Len(sub) > 1 /\ sub[2].k \in {"int", "tuple"} =>
                        LegalSet(i)' = LiteralSet(sub[2])]_vars

-----------------------------------------------------------------------------
(* The pointer of a frame is on a repeat group with an integer bound.      *)
OnBounded(fr) ==
    Inside(fr) /\ TokenOf(fr).k = "dict" /\ ~TokenOf(fr).v.raw.callable

(* The ids of the token that follows the token a frame points to; the      *)
(* token is a literal, a range, an enumeration or an embedded object.      *)
HasFollow(fr) ==
    /\ fr[2] + 1 < Len(Production(fr))
    /\ Production(fr)[fr[2] + 2].k \in {"int", "tuple", "str"}

FollowSet(fr) ==
    LET nxt == Production(fr)[fr[2] + 2]
    IN IF nxt.k = "str" THEN FirstSet(nxt.v) ELSE LiteralSet(nxt)

(* C29. Bounded repetition, for a group with an integer bound n: the count *)
(* of a frame on the group never exceeds n; it grows, an instance being    *)
(* entered, only from a count below n; and when the frame is the top frame *)
(* again with n instances entered, still on the group or moved past it,    *)
(* the first ids of the sub-object are legal only as ids of the token that *)
(* follows the group.                                                      *)
C29_BoundedRepetition ==
    [][Accepted' =>
          \A i \in Rows : \A d \in Depths :
              /\ d <= ptr'[i] /\ OnBounded(Frame(i, d))' =>
                     stack'[i][d - 1][3] <= TokenOf(Frame(i, d))'.v.raw.m
              /\ d <= ptr[i] /\ OnBounded(Frame(i, d)) =>
                     LET fr == Frame(i, d)
                         n == TokenOf(fr).v.raw.m
                         sub == TokenOf(fr).v.sub
                     IN /\ Stays(i, d) /\ stack'[i][d - 1][3] > fr[3] =>
                               fr[3] < n /\ stack'[i][d - 1][3] = fr[3] + 1
                        /\ /\ Persists(i, d) /\ ptr'[i] = d /\ HasFollow(fr)
                           /\ \/ stack'[i][d - 1] = <<fr[1], fr[2] + 1, 0>>
                              \/ stack'[i][d - 1][2] = fr[2] /\ stack'[i][d - 1][3] >= n
                           => (LegalSet(i)' \cap FirstSet(sub)) \subseteq FollowSet(fr)]_vars

(* The top frame has just moved past a group with a bound n >= 1, all n    *)
(* instances complete, and ids of the first token of the sub-object are    *)
(* legal as ids of the token after the group.                              *)
C29_Witness ==
    /\ Accepted
    /\ \E i \in Rows :
          /\ ptr[i] > 0 /\ Inside(Frame(i, ptr[i])) /\ TopIndex(i) > 0 /\ TopRepeat(i) = 0
          /\ LET group == <<Frame(i, ptr[i])[1], TopIndex(i) - 1, 0>>
             IN /\ OnBounded(group) /\ TokenOf(group).v.raw.m >= 1
                /\ LegalSet(i) \cap FirstSet(TokenOf(group).v.sub) # {}

-----------------------------------------------------------------------------
(* The frame at depth d + 1 of row i is removed by the accept that is made *)
(* now and the frame at depth d, its parent, is the top frame afterwards.  *)
Removed(i, d) ==
    /\ Accepts(i) /\ d >= 1 /\ ptr[i] > d /\ ptr'[i] = d
    /\ stack'[i][d - 1][1] = stack[i][d - 1][1]

(* C30. Every removal of a frame that has a parent moves the parent        *)
(* forward or leaves it on an unsatisfied repeat group: afterwards the     *)
(* pointer of the parent has advanced by one with repeat count 0, or the   *)
(* current token of the parent is a repeat group whose predicate is false  *)
(* at the parent's count.                                                  *)
C30_RemovalMovesParent ==
    [][\A i \in Rows : \A d \in Depths :
          Removed(i, d) =>
              LET parent == Frame(i, d)
                  after == stack'[i][d - 1]
              IN \/ after = <<parent[1], parent[2] + 1, 0>>
                 \/ /\ Inside(after) /\ TokenOf(after).k = "dict"
                    /\ after[3] < TokenOf(after).v.raw.m]_vars

====
